---- MODULE Spec2Model ----
(***************************************************************************)
(* A model of wos-data-prep/read.py: read_wos_exports runs as a sequential *)
(* process (pc), one step per statement of the function, over a folder of  *)
(* Web of Science exports; _repair_pt_au, pd.concat and the rename step    *)
(* are operators on data frames.                                           *)
(*                                                                         *)
(* A cell is a string, kept as a sequence of one-character strings.  A     *)
(* data frame is [columns, data]: the column labels in order and, per row, *)
(* the cells in column order (labels may repeat after renaming, so a row   *)
(* is positional, as in pandas).  An export file is [header, lines]: the   *)
(* fields of its first line and the fields of each further line, as the    *)
(* tab tokenizer of pd.read_csv delivers them.                             *)
(***************************************************************************)
EXTENDS Naturals, Sequences, FiniteSets, TLC

VARIABLES folderExists, listing, pc, txt_files, pos, frame, frames, df, error

vars == <<folderExists, listing, pc, txt_files, pos, frame, frames, df, error>>

\* ---------------------------------------------------------------- bounds

\* Rows in the export files of the folder, altogether.
MaxRows == 3

\* Characters in the cells of one export file, altogether (SpecRepair).
MaxChars == 5

\* ------------------------------------------------------------- sequences

Range(s) == {s[k] : k \in 1..Len(s)}

\* Position of the first occurrence of v in s, 0 when there is none.
IndexOf(s, v) ==
    IF v \in Range(s) THEN CHOOSE k \in 1..Len(s) : s[k] = v /\ \A j \in 1..(k - 1) : s[j] # v
    ELSE 0

RECURSIVE Flatten(_)
Flatten(ss) == IF ss = <<>> THEN <<>> ELSE Head(ss) \o Flatten(Tail(ss))

\* --------------------------------------------------------------- pandas

\* The missing-value marker of pandas; no string equals it.
NaN == <<"NaN">>

\* A frame that holds nothing yet (a Python name not bound so far).
NoFrame == [columns |-> <<>>, data |-> <<>>]

\* df[col]: the cells of column col, by row.
Column(d, col) == [r \in 1..Len(d.data) |-> d.data[r][IndexOf(d.columns, col)]]

\* df[col] = value for a column the frame does not have: the column is
\* appended with value in every row.
AddColumn(d, col, value) ==
    [columns |-> Append(d.columns, col),
     data |-> [r \in 1..Len(d.data) |-> Append(d.data[r], value)]]

\* How many of the rows 1..r the mask selects.
Rank(mask, r) == Cardinality({j \in 1..r : mask[j]})

\* A df.loc assignment that fills blank cells only and keeps a cell that
\* holds text.
LocAssignBlank(d, mask, col, values) ==
    [d EXCEPT !.data =
        [r \in 1..Len(d.data) |->
            IF mask[r] /\ d.data[r][IndexOf(d.columns, col)] = <<>>
            THEN [d.data[r] EXCEPT ![IndexOf(d.columns, col)] = values[Rank(mask, r)]]
            ELSE d.data[r]]]

\* df.loc[mask, col] = values: the k-th selected row takes values[k].
LocAssign(d, mask, col, values) ==
    [d EXCEPT !.data =
        [r \in 1..Len(d.data) |->
            IF mask[r]
            THEN [d.data[r] EXCEPT ![IndexOf(d.columns, col)] = values[Rank(mask, r)]]
            ELSE d.data[r]]]

\* ------------------------------------------------------- _repair_pt_au

\* The letters of the character class [JBSP].
ClosedSet == {"J", "B", "S", "P"}

\* .str.match(r"^. "): any first character, then a space.
StrMatchAnyLetter(s) == Len(s) >= 2 /\ s[2] = " "

\* .str.match(r"^[JBSP] "): the string starts with a closed-set letter and a space.
StrMatch(s) == Len(s) >= 2 /\ s[1] \in ClosedSet /\ s[2] = " "

\* mask = df["PT"].str.len().gt(1) & df["PT"].str.match(r"^[JBSP] ")
Mask(d) == [r \in 1..Len(d.data) |-> Len(Column(d, "PT")[r]) > 1 /\ StrMatch(Column(d, "PT")[r])]

\* .str.split(n=1, expand=True): split at the first run of whitespace, the
\* whole run dropped.
StrSplitWhitespace(s) ==
    LET k == IndexOf(s, " ")
        run == {m \in (k + 1)..Len(s) : \A j \in k..(m - 1) : s[j] = " "}
        after == IF \E m \in run : s[m] # " "
                 THEN CHOOSE m \in run : s[m] # " "
                 ELSE Len(s) + 1
    IN IF k = 0 THEN <<s, NaN>>
       ELSE <<SubSeq(s, 1, k - 1), SubSeq(s, after, Len(s))>>

\* .str.rsplit(" ", n=1, expand=True): split at the last space.
StrSplitLast(s) ==
    LET k == IF " " \in Range(s)
             THEN CHOOSE m \in 1..Len(s) : s[m] = " " /\ \A j \in (m + 1)..Len(s) : s[j] # " "
             ELSE 0
    IN IF k = 0 THEN <<s, NaN>>
       ELSE <<SubSeq(s, 1, k - 1), SubSeq(s, k + 1, Len(s))>>

\* .str.split(" ", n=1, expand=True) on one string: the text before its
\* first space and the text after it (None, here NaN, when it has no space).
StrSplit(s) ==
    LET k == IndexOf(s, " ")
    IN IF k = 0 THEN <<s, NaN>>
       ELSE <<SubSeq(s, 1, k - 1), SubSeq(s, k + 1, Len(s))>>

\* The rows the mask selects, in row order.
Selected(mask) ==
    LET n == Cardinality({r \in DOMAIN mask : mask[r]})
    IN [k \in 1..n |-> CHOOSE r \in DOMAIN mask : mask[r] /\ Rank(mask, r) = k]

\* first, rest = zip(*df.loc[mask, "PT"].str.split(...).values): the two
\* columns of the split, each in the order of the selected rows.
SplitParts(d, part) ==
    LET sel == Selected(Mask(d))
    IN [k \in 1..Len(sel) |-> StrSplit(Column(d, "PT")[sel[k]])[part]]

\* Whether _repair_pt_au gets past its two early returns.
MaskAny(d) == "PT" \in Range(d.columns) /\ \E r \in 1..Len(d.data) : Mask(d)[r]

\* The function gets to its .str.split(" ", 1, expand=True), which hands n
\* over by position: pandas 1.x takes it (with a FutureWarning from 1.4 on),
\* pandas 2.x, where n is keyword-only, raises TypeError.
ReachesSplit(d) == MaskAny(d)

\* The AU column exists from here on.
EnsureAU(d) == IF "AU" \notin Range(d.columns) THEN AddColumn(d, "AU", <<>>) ELSE d

_repair_pt_au(d) ==
    IF "PT" \notin Range(d.columns) THEN d
    ELSE IF ~MaskAny(d) THEN d
    ELSE LET mask == Mask(d)
             first == SplitParts(d, 1)
             rest == SplitParts(d, 2)
         IN LocAssign(LocAssign(EnsureAU(d), mask, "PT", first), mask, "AU", rest)

\* ----------------------------------------------------- pd.read_csv

\* pd.read_csv(f, sep="\t", header=0, dtype=str, keep_default_na=False):
\* the first line names the columns, every further line is a row, and each
\* field stays the string it is (an empty field is "", not NaN).
read_csv(file) == [columns |-> file.header, data |-> file.lines]

\* ------------------------------------------------- folder, glob, sorted

\* Code points of the characters of the file names.
Ord == ("-" :> 45) @@ ("." :> 46) @@ ("a" :> 97) @@ ("b" :> 98) @@ ("c" :> 99)
       @@ ("s" :> 115) @@ ("t" :> 116) @@ ("v" :> 118) @@ ("x" :> 120)

TxtA == <<"a", ".", "t", "x", "t">>
TxtAB == <<"a", "-", "b", ".", "t", "x", "t">>
CsvA == <<"a", ".", "c", "s", "v">>

\* The names an entry of the folder may have, in an order of no meaning.
FileNames == <<TxtA, CsvA, TxtAB>>

\* fnmatch of "*.txt": the name ends with .txt
MatchesTxt(name) ==
    Len(name) >= 4 /\ SubSeq(name, Len(name) - 3, Len(name)) = <<".", "t", "x", "t">>

\* folder.glob("*.txt"): the matching entries, in no order.
glob(dir) == {name \in DOMAIN dir : MatchesTxt(name)}

\* a < b for two paths of one folder: string order on the names.
PathLess(a, b) ==
    \E k \in 1..(Len(a) + 1) :
        /\ k <= Len(b)
        /\ \A j \in 1..(k - 1) : a[j] = b[j]
        /\ (k = Len(a) + 1 \/ Ord[a[k]] < Ord[b[k]])

\* sorted(paths, reverse=True)
sortedReverse(paths) ==
    CHOOSE s \in [1..Cardinality(paths) -> paths] :
        /\ \A j, k \in DOMAIN s : j < k => PathLess(s[k], s[j])

\* sorted(paths)
sorted(paths) ==
    CHOOSE s \in [1..Cardinality(paths) -> paths] :
        /\ \A j, k \in DOMAIN s : j < k => PathLess(s[j], s[k])

\* ------------------------------------------------------------ pd.concat

\* The labels of the first frame only.
RECURSIVE FirstColumns(_, _)
FirstColumns(fs, acc) == IF fs = <<>> THEN acc ELSE Head(fs).columns

\* The labels of the frames in order of first appearance (join="outer", sort=False).
RECURSIVE UnionColumns(_, _)
UnionColumns(fs, acc) ==
    IF fs = <<>> THEN acc
    ELSE UnionColumns(Tail(fs),
                      acc \o SelectSeq(Head(fs).columns, LAMBDA c : c \notin Range(acc)))

\* The rows of d laid out on the labels cols; a label d lacks gives NaN.
Reindex(d, cols) ==
    [r \in 1..Len(d.data) |->
        [c \in 1..Len(cols) |->
            IF cols[c] \in Range(d.columns)
            THEN d.data[r][IndexOf(d.columns, cols[c])]
            ELSE NaN]]

\* pd.concat(frames, ignore_index=True)
concat(fs) ==
    LET cols == UnionColumns(fs, <<>>)
    IN [columns |-> cols,
        data |-> Flatten([k \in 1..Len(fs) |-> Reindex(fs[k], cols)])]

\* --------------------------------------------------------------- rename

\* A map in which the destination of one code is another code of the map.
RENAME_MAP_Chained ==
    ("PT" :> "Publication Type") @@ ("AU" :> "Author") @@ ("TI" :> "Title")
    @@ ("SO" :> "Journal") @@ ("VL" :> "Volume") @@ ("IS" :> "Issue")
    @@ ("DI" :> "DOI") @@ ("PD" :> "Date") @@ ("PY" :> "Year")
    @@ ("AB" :> "Abstract") @@ ("C1" :> "Author Address")
    @@ ("TC" :> "WC") @@ ("WC" :> "Notes_WC") @@ ("UT" :> "Accession Number")

RENAME_MAP ==
    ("PT" :> "Publication Type") @@ ("AU" :> "Author") @@ ("TI" :> "Title")
    @@ ("SO" :> "Journal") @@ ("VL" :> "Volume") @@ ("IS" :> "Issue")
    @@ ("DI" :> "DOI") @@ ("PD" :> "Date") @@ ("PY" :> "Year")
    @@ ("AB" :> "Abstract") @@ ("C1" :> "Author Address")
    @@ ("TC" :> "Notes_TC") @@ ("WC" :> "Notes_WC") @@ ("UT" :> "Accession Number")

\* {old: new for old, new in rename.items() if old in df.columns}
cols_to_rename(cols) ==
    [old \in {o \in DOMAIN RENAME_MAP : o \in Range(cols)} |-> RENAME_MAP[old]]

\* The labels of df.rename(columns=mapper).
RenameColumns(cols) ==
    LET mapper == cols_to_rename(cols)
    IN [c \in 1..Len(cols) |-> IF cols[c] \in DOMAIN mapper THEN mapper[cols[c]] ELSE cols[c]]

rename(d) == [d EXCEPT !.columns = RenameColumns(d.columns)]

\* --------------------------------------------------------------- inputs

\* The characters of a PT cell: a closed-set letter, a space, another letter.
Chars == {"J", " ", "x"}

\* What a cell other than PT holds.
OtherTexts == {<<>>, <<"x">>}

RECURSIVE Sum(_)
Sum(ns) == IF ns = <<>> THEN 0 ELSE Head(ns) + Sum(Tail(ns))

\* The k-th of the pieces of lengths lens that text is cut into.
Piece(text, lens, k) ==
    LET before == Sum(SubSeq(lens, 1, k - 1))
    IN SubSeq(text, before + 1, before + lens[k])

\* The export file with header h whose r-th line holds pts[r] in its PT
\* field and others[r] in every other field.
ExportFile(h, pts, others) ==
    [header |-> h,
     lines |-> [r \in 1..Len(pts) |->
                  [c \in 1..Len(h) |-> IF h[c] = "PT" THEN pts[r] ELSE others[r]]]]

\* Headers of the files _repair_pt_au is exercised on: AU after PT, AU
\* before PT, AU absent, PT absent.
RepairHeaders == {<<"PT", "AU">>, <<"AU", "PT">>, <<"PT", "TI">>, <<"TI", "AU">>}

\* Headers of the files of a folder: the two of the spec's scenario A, one
\* with an unmapped label, the two "notes" codes, and a file that carries a
\* descriptive label beside the code it belongs to.
Headers ==
    {<<"PT", "AU", "TI">>, <<"PT", "TI", "AB">>, <<"TI", "XX">>, <<"TC", "WC">>,
     <<"PT", "Publication Type">>}

\* The PT cells of the files of a folder: a whole code and a glued one.
FolderPT == {<<"J">>, <<"J", " ", "x">>}

\* An entry glob does not match; nothing reads it.
OtherFile == [header |-> <<"PT">>, lines |-> <<>>]

EmptyListing == [name \in {} |-> OtherFile]

\* The folder with the entries present: the k-th name of FileNames, when an
\* export, has header hdr[k] and the next cnt[k] of the lines (pts, others).
Folder(present, hdr, cnt, pts, others) ==
    [name \in present |->
        LET k == IndexOf(FileNames, name)
            before == Sum(SubSeq(cnt, 1, k - 1))
        IN IF MatchesTxt(name)
           THEN ExportFile(hdr[k], SubSeq(pts, before + 1, before + cnt[k]),
                           SubSeq(others, before + 1, before + cnt[k]))
           ELSE OtherFile]

\* ------------------------------------------------- read_wos_exports

\* A call of read_wos_exports(folder) with the default rename map: the
\* folder is missing, or holds any of the entries FileNames, its export
\* files with at most MaxRows lines altogether.
Init ==
    /\ folderExists \in BOOLEAN
    /\ \E present \in (IF folderExists THEN SUBSET Range(FileNames) ELSE {{}}) :
       \E hdr \in [1..Len(FileNames) -> Headers] :
       \E cnt \in [1..Len(FileNames) -> 0..MaxRows] :
         /\ Sum(cnt) <= MaxRows
         /\ \A k \in 1..Len(FileNames) :
              FileNames[k] \notin present \/ ~MatchesTxt(FileNames[k])
                  => cnt[k] = 0 /\ hdr[k] = <<"TC", "WC">>
         /\ \E pts \in [1..Sum(cnt) -> FolderPT] :
            \E others \in [1..Sum(cnt) -> OtherTexts] :
              listing = Folder(present, hdr, cnt, pts, others)
    /\ pc = "start"
    /\ txt_files = <<>>
    /\ pos = 0
    /\ frame = NoFrame
    /\ frames = <<>>
    /\ df = NoFrame
    /\ error = ""

\* if not folder.exists(): raise FileNotFoundError
CheckFolder ==
    /\ pc = "start"
    /\ \/ ~folderExists /\ pc' = "raised" /\ error' = "FileNotFoundError"
       \/ folderExists /\ pc' = "glob" /\ error' = error
    /\ UNCHANGED <<folderExists, listing, txt_files, pos, frame, frames, df>>

\* The glob step without its check for an empty result.
GlobNoRaise ==
    /\ pc = "glob"
    /\ txt_files' = sorted(glob(listing))
    /\ \/ txt_files' = <<>> /\ pc' = "concat" /\ pos' = pos
       \/ txt_files' # <<>> /\ pc' = "read" /\ pos' = 1
    /\ UNCHANGED <<folderExists, listing, frame, frames, df, error>>

\* txt_files = sorted(folder.glob("*.txt")); if not txt_files: raise FileNotFoundError
Glob ==
    /\ pc = "glob"
    /\ txt_files' = sorted(glob(listing))
    /\ \/ txt_files' = <<>> /\ pc' = "raised" /\ error' = "FileNotFoundError" /\ pos' = pos
       \/ txt_files' # <<>> /\ pc' = "read" /\ error' = error /\ pos' = 1
    /\ UNCHANGED <<folderExists, listing, frame, frames, df>>

\* frame = pd.read_csv(f, ...) for the file the loop is at
ReadCsv ==
    /\ pc = "read"
    /\ frame' = read_csv(listing[txt_files[pos]])
    /\ pc' = "repair"
    /\ UNCHANGED <<folderExists, listing, txt_files, pos, frames, df, error>>

\* frame = _repair_pt_au(frame): the function returns the frame, or, under
\* a pandas that refuses the positional n, raises at its split.
Repair ==
    /\ pc = "repair"
    /\ \/ frame' = _repair_pt_au(frame) /\ pc' = "append" /\ error' = error
       \/ ReachesSplit(frame) /\ frame' = frame /\ pc' = "raised" /\ error' = "TypeError"
    /\ UNCHANGED <<folderExists, listing, txt_files, pos, frames, df>>

\* frames.append(frame), and on to the next file or out of the loop
AppendFrame ==
    /\ pc = "append"
    /\ frames' = Append(frames, frame)
    /\ \/ pos < Len(txt_files) /\ pos' = pos + 1 /\ pc' = "read"
       \/ pos = Len(txt_files) /\ pos' = pos /\ pc' = "concat"
    /\ UNCHANGED <<folderExists, listing, txt_files, frame, df, error>>

\* df = pd.concat(frames, ignore_index=True)
Concat ==
    /\ pc = "concat"
    /\ df' = concat(frames)
    /\ pc' = "rename"
    /\ UNCHANGED <<folderExists, listing, txt_files, pos, frame, frames, error>>

\* df = df.rename(columns=cols_to_rename); the preview is printed; return df
Rename ==
    /\ pc = "rename"
    /\ df' = rename(df)
    /\ pc' = "done"
    /\ UNCHANGED <<folderExists, listing, txt_files, pos, frame, frames, error>>

Next == CheckFolder \/ Glob \/ ReadCsv \/ Repair \/ AppendFrame \/ Concat \/ Rename

Spec == Init /\ [][Next]_vars

\* _repair_pt_au on its own: read_wos_exports stands at the only export
\* file of its folder, a file of at most MaxRows lines and MaxChars
\* characters whose PT cells hold any text over Chars.
InitRepair ==
    /\ folderExists = TRUE
    /\ \E h \in RepairHeaders :
       \E n \in 0..MaxRows :
       \E others \in [1..n -> OtherTexts] :
       \E lens \in [1..n -> 0..MaxChars] :
         /\ Sum(lens) + Sum([r \in 1..n |-> Len(others[r])]) <= MaxChars
         /\ "PT" \notin Range(h) => Sum(lens) = 0
         /\ \E text \in [1..Sum(lens) -> Chars] :
              listing = (TxtA :> ExportFile(h, [r \in 1..n |-> Piece(text, lens, r)], others))
    /\ pc = "read"
    /\ txt_files = <<TxtA>>
    /\ pos = 1
    /\ frame = NoFrame
    /\ frames = <<>>
    /\ df = NoFrame
    /\ error = ""

NextRepair == ReadCsv \/ Repair

SpecRepair == InitRepair /\ [][NextRepair]_vars

\* ------------------------------------------------- claims: _repair_pt_au

\* The frame as pd.read_csv loaded it from the file the loop is at.
Loaded == read_csv(listing[txt_files[pos]])

\* _repair_pt_au has returned and frame is what it returned.
Repaired == pc = "append"

\* The repair predicate of the spec on one cell: longer than one character,
\* a letter of {J, B, S, P} and then a space.
Glued(s) == Len(s) > 1 /\ s[1] \in {"J", "B", "S", "P"} /\ s[2] = " "

\* Row r of the loaded frame matches the repair predicate.
RowGlued(r) == "PT" \in Range(Loaded.columns) /\ Glued(Column(Loaded, "PT")[r])

\* C1: after the repair, PT, a single space and AU of every matching row
\* spell the original PT cell, whatever AU held and however many spaces the
\* cell has.
C1_RoundTrip ==
    Repaired =>
        \A r \in 1..Len(Loaded.data) :
            RowGlued(r) =>
                /\ "AU" \in Range(frame.columns)
                /\ Column(frame, "PT")[r] \o <<" ">> \o Column(frame, "AU")[r]
                       = Column(Loaded, "PT")[r]

\* A matching row with a second space in its PT cell and a prior AU text
\* has been repaired.
C1_Witness ==
    /\ Repaired
    /\ \E r \in 1..Len(Loaded.data) :
        /\ RowGlued(r)
        /\ \E k \in 3..Len(Column(Loaded, "PT")[r]) : Column(Loaded, "PT")[r][k] = " "
        /\ "AU" \in Range(Loaded.columns)
        /\ Column(Loaded, "AU")[r] = <<"x">>
        /\ Column(frame, "AU")[r] # <<"x">>

\* C2: the repair keeps every row, and a row that does not match the repair
\* predicate keeps every cell it had, also when other rows are repaired.
C2_Identity ==
    Repaired =>
        /\ Len(frame.data) = Len(Loaded.data)
        /\ \A c \in Range(Loaded.columns) : c \in Range(frame.columns)
        /\ \A r \in 1..Len(Loaded.data) :
            ~RowGlued(r) =>
                \A c \in Range(Loaded.columns) : Column(frame, c)[r] = Column(Loaded, c)[r]

\* One row was repaired beside a row whose PT is a single character and a
\* row whose PT has a space but no closed-set letter before it.
C2_Witness ==
    /\ Repaired
    /\ "PT" \in Range(Loaded.columns)
    /\ \E r \in 1..Len(Loaded.data) : RowGlued(r) /\ frame.data[r] # Loaded.data[r]
    /\ \E r \in 1..Len(Loaded.data) : Len(Column(Loaded, "PT")[r]) = 1
    /\ \E r \in 1..Len(Loaded.data) :
        /\ ~RowGlued(r)
        /\ " " \in Range(Column(Loaded, "PT")[r])
        /\ frame.data[r] = Loaded.data[r]

\* C3: after the repair the PT cell of every matching row is one letter of
\* {J, B, S, P}.
C3_CodeField ==
    Repaired =>
        \A r \in 1..Len(Loaded.data) :
            RowGlued(r) =>
                /\ Len(Column(frame, "PT")[r]) = 1
                /\ Column(frame, "PT")[r][1] \in {"J", "B", "S", "P"}

\* A matching row with text and a further space behind its code has been
\* repaired.
C3_Witness ==
    /\ Repaired
    /\ \E r \in 1..Len(Loaded.data) :
        /\ RowGlued(r)
        /\ Len(Column(Loaded, "PT")[r]) >= 4
        /\ Column(Loaded, "PT")[r][4] = " "
        /\ Column(frame, "PT")[r] = <<"J">>

\* The text behind the first space of s.
IsAfterFirstSpace(t, s) ==
    \E k \in 1..Len(s) :
        /\ s[k] = " "
        /\ \A j \in 1..(k - 1) : s[j] # " "
        /\ t = SubSeq(s, k + 1, Len(s))

\* C4: the repair writes the text behind the first space of the PT cell into
\* AU of every matching row, over whatever AU held; a frame without an AU
\* column gets one, with the empty string in every other row.
C4_Overwrite ==
    Repaired =>
        /\ \A r \in 1..Len(Loaded.data) :
            RowGlued(r) =>
                /\ "AU" \in Range(frame.columns)
                /\ IsAfterFirstSpace(Column(frame, "AU")[r], Column(Loaded, "PT")[r])
        /\ ("AU" \notin Range(Loaded.columns) /\ \E r \in 1..Len(Loaded.data) : RowGlued(r)) =>
                /\ "AU" \in Range(frame.columns)
                /\ \A r \in 1..Len(Loaded.data) : ~RowGlued(r) => Column(frame, "AU")[r] = <<>>

\* A matching row that held a text in AU now holds the text behind the
\* first space there, while the AU of a row beside it is as it was.
C4_Witness ==
    /\ Repaired
    /\ "AU" \in Range(Loaded.columns)
    /\ \E r \in 1..Len(Loaded.data) :
        /\ RowGlued(r)
        /\ Column(Loaded, "AU")[r] = <<"x">>
        /\ Column(frame, "AU")[r] = <<"J">>
    /\ \E r \in 1..Len(Loaded.data) : ~RowGlued(r) /\ Column(frame, "AU")[r] = <<"x">>

\* --------------------------------------------- claims: read_wos_exports

\* read_wos_exports has returned and df is the Unified Table.
Returned == pc = "done"

\* The export files of the folder.
Exports == {name \in DOMAIN listing : MatchesTxt(name)}

\* The lines of the exports named names, as (file, line number) pairs.
LinesOf(names) == UNION {{<<name, r>> : r \in 1..Len(listing[name].lines)} : name \in names}

\* How many data lines the exports sorted before name hold.
RowsBefore(name) == Cardinality(LinesOf({other \in Exports : PathLess(other, name)}))

\* The labels of the Unified Table before the rename step, in column order.
RawLabels == UnionColumns(frames, <<>>)

\* C5: in the returned table a cell of a column that the frame of the row's
\* file did not have is the empty string.
C5_MissingCellsEmpty ==
    Returned =>
        \A k \in 1..Len(frames) :
        \A r \in 1..Len(frames[k].data) :
        \A c \in 1..Len(df.columns) :
            RawLabels[c] \notin Range(frames[k].columns) =>
                df.data[Sum([j \in 1..(k - 1) |-> Len(frames[j].data)]) + r][c] = <<>>

\* C6: every label of every export is a label of the returned table, under
\* its descriptive name when the rename map has the label and unchanged
\* otherwise, and the table has a column for each.
C6_ColumnsSurvive ==
    Returned =>
        LET labels == UNION {Range(listing[name].header) : name \in Exports}
        IN /\ \A c \in labels :
                (IF c \in DOMAIN RENAME_MAP THEN RENAME_MAP[c] ELSE c) \in Range(df.columns)
           /\ Len(df.columns) >= Cardinality(labels)

\* Two exports with different headers were merged; the unmapped XX and
\* the renamed AB of the one, the renamed AU of the other are all there.
C6_Witness ==
    /\ Returned
    /\ Cardinality(Exports) = 2
    /\ \E name \in Exports : listing[name].header = <<"TI", "XX">>
    /\ \E name \in Exports : listing[name].header = <<"PT", "AU", "TI">>
    /\ {"XX", "Title", "Author", "Publication Type"} \subseteq Range(df.columns)
    /\ Len(df.data) >= 2

\* C7: the labels of the returned table are pairwise distinct.
C7_NoCollision ==
    Returned =>
        \A a, b \in 1..Len(df.columns) : a # b => df.columns[a] # df.columns[b]

\* The folder is missing or holds no entry that matches *.txt
NoInput == ~folderExists \/ Exports = {}

\* C8: on a missing folder or a folder without *.txt entry the run ends in
\* FileNotFoundError (the spec's NoInputError) and in nothing else, with no
\* file loaded and no table made.
C8_NoInputError ==
    NoInput =>
        /\ pc \in {"start", "glob", "raised"}
        /\ ~folderExists => pc # "glob"
        /\ pc = "raised" => error = "FileNotFoundError"
        /\ frame = NoFrame /\ frames = <<>> /\ df = NoFrame

\* The folder exists and has an entry, none matching *.txt, and the run
\* has raised.
C8_Witness ==
    /\ folderExists
    /\ DOMAIN listing # {}
    /\ Exports = {}
    /\ pc = "raised"
    /\ error = "FileNotFoundError"

C10_RenameIdempotent == Returned => RenameColumns(df.columns) = df.columns

\* A table with renamed codes, an unmapped label and a label that was
\* descriptive in the file has been returned.
C10_Witness ==
    /\ Returned
    /\ {"Notes_TC", "Notes_WC", "Publication Type"} \subseteq Range(df.columns)
    /\ \E name \in Exports : "Publication Type" \in Range(listing[name].header)
    /\ df.columns # RawLabels

====
